---- MODULE Spec2Model ----
(***************************************************************************)
(* wan-prober: the per-interface probing loop (probeInterface), one probe  *)
(* attempt (probe.ProbeHTTP) with its host resolver, fallback resolvers    *)
(* and the process-wide DNS cache, the consumer of the status channel in   *)
(* main, and the signal handler that cancels the context and exits.        *)
(***************************************************************************)
EXTENDS Integers, Sequences, FiniteSets, TLC

\* ------------------------------------------------------------------ bounds
\* Largest probe_config.attempts a configuration of the model names.
MaxAttempts == 3
\* Number of configured fallback resolvers.
MaxResolvers == 2
\* Largest Unix time the clock of the model reaches.
MaxTime == 1

\* ------------------------------------------------------- configuration data
\* Places of the target list: a configuration of the model holds at most two targets.
TargetIds == {1, 2}

\* Interface names a configuration may list (Interface.Name).
InterfaceNames == {"wan0", "wan1"}

\* The registered probers: the keys of the map `probers`.
probers == {"http"}

\* Probe kinds a target of the configuration may name; "icmp" is not registered.
ProbeKinds == {"http", "icmp"}

\* probe_config.attempts once main has set its default: 0 became 3, any
\* other int of the configuration file is kept, a negative one included.
AttemptsValues == {-1} \cup 1..MaxAttempts

\* Addresses a resolver may answer with; two IPv4 literals and one IPv6 literal.
AddrPool == {"192.0.2.1", "198.51.100.7", "2001:db8::1"}

\* ip.To4() != nil: the address is an IPv4 address.
To4(ip) == ip \in {"192.0.2.1", "198.51.100.7"}

\* The address the transport hands to DialContext for the target at place k:
\* the fully qualified host name of the target URL and its port.
TargetAddr(k) == <<<<"a.example.", "b.example.">>[k], "80">>

\* The errors a prober returns; "nil" is success, "other" any error the
\* probing loop does not recognise (connection refused, cancelled context).
ErrProbeTimeout == "ErrProbeTimeout"
ErrDNSNXDomain == "ErrDNSNXDomain"
ErrDNSFallbackServFail == "ErrDNSFallbackServFail"
ErrDNSResolutionImpossible == "ErrDNSResolutionImpossible"
ErrNoAddresses == "No addresses found for hostname"

VARIABLES
    config,              \* the loaded Config: Interfaces, Targets, Attempts, FallbackResolvers
    zone,                \* the address sets the DNS may answer a lookup with
    horizon,             \* the latest Unix time the clock shows in this run
    cancelled,           \* ctx.Done() is closed
    exited,              \* os.Exit(0) was called
    loop,                \* per interface: the locals of probeInterface, its position, and the counters at the latest bookkeeping
    probe,               \* per interface: the locals of the ProbeHTTP call in progress
    dnsCache,            \* the sync.Map dnsCache: target host -> address set
    interfaceStatusMap,  \* the sync.Map interfaceStatusMap: name -> InterfaceStatusResponse
    now,                 \* the last value time.Now().Unix() returned
    seen                 \* per interface and target of this cycle: iterations of the attempt loop, prober calls made, outcome classes returned

vars == <<config, zone, horizon, cancelled, exited, loop, probe, dnsCache, interfaceStatusMap, now, seen>>

\* What httpDialer.DialContext and client.Do can end with.
HTTPResults == {"nil", ErrProbeTimeout, "ENETDOWN", "ENETUNREACH", "other"}

\* What hostResolver.LookupIPAddr can end with: an address list, an
\* NXDOMAIN DNSError, or any other error.
HostAnswers ==
    [err : {"nil"}, addrs : zone]
        \cup [err : {"NXDOMAIN", "fail"}, addrs : {{}}]

\* What a fallback resolver's LookupIPAddr can end with; SERVFAIL is the
\* temporary "server misbehaving" DNSError.
FallbackAnswers ==
    [err : {"nil"}, addrs : zone]
        \cup [err : {"NXDOMAIN", "SERVFAIL", "fail"}, addrs : {{}}]

\* rand.Perm(n): every permutation of 1..n.
Perm(n) ==
    {p \in [1..n -> 1..n] : \A a, b \in 1..n : p[a] = p[b] => a = b}

\* ------------------------------------------------------------ sync.Map
\* sync.Map.Store: the entry of key k is replaced, every other entry kept.
Store(m, k, v) ==
    [x \in DOMAIN m \cup {k} |-> IF x = k THEN v ELSE m[x]]

\* Load with a key that never matches the key Store used.
LoadMiss(m, k) ==
    [exists |-> FALSE, value |-> {}]

\* sync.Map.Load: the value stored for key k, and whether there is one.
Load(m, k) ==
    [exists |-> k \in DOMAIN m, value |-> IF k \in DOMAIN m THEN m[k] ELSE {}]

\* -------------------------------------------------------- probeInterface
\* How the probing loop classifies a prober's error.
Class(err) ==
    IF err = "nil" THEN "success"
    ELSE IF err \in {ErrProbeTimeout, ErrDNSResolutionImpossible} THEN "timeout"
    ELSE IF err \in {"ENETDOWN", "ENETUNREACH"} THEN "netdown"
    ELSE IF err = ErrDNSNXDomain THEN "nxdomain"
    ELSE "error"

\* Count with a network-down error counted as a hard error.
CountNetDownAsError(l, err) ==
    CASE Class(err) = "success" -> [l EXCEPT !.success = TRUE]
      [] Class(err) = "timeout" -> [l EXCEPT !.timeouts = @ + 1]
      [] OTHER -> [l EXCEPT !.errs = @ + 1]

\* The counters after one attempt returned err.
Count(l, err) ==
    CASE Class(err) = "success" -> [l EXCEPT !.success = TRUE]
      [] Class(err) \in {"timeout", "netdown"} ->
            [l EXCEPT !.timeouts = @ + 1]
      [] OTHER -> [l EXCEPT !.errs = @ + 1]

\* Breaks without the `break` of the NXDOMAIN branch.
BreaksOnNetDownOnly(err) == Class(err) = "netdown"

\* The outcomes after which the attempt loop is left by `break`.
Breaks(err) == Class(err) \in {"netdown", "nxdomain"}

\* Book with `if` in place of `else if`: both tests are made.
BookBoth(l) ==
    LET m == IF l.errs = l.attempts THEN [l EXCEPT !.validTargets = @ - 1] ELSE l
    IN IF l.timeouts = l.attempts - l.errs
       THEN [m EXCEPT !.unreachableTargets = @ + 1]
       ELSE m

\* Book without the decrement of validTargets.
BookNoDecrement(l) ==
    IF l.errs = l.attempts
    THEN l
    ELSE IF l.timeouts = l.attempts - l.errs
         THEN [l EXCEPT !.unreachableTargets = @ + 1]
         ELSE l

\* Per-target bookkeeping after an attempt loop that ended without success.
Book(l) ==
    IF l.errs = l.attempts
    THEN [l EXCEPT !.validTargets = @ - 1]
    ELSE IF l.timeouts = l.attempts - l.errs
         THEN [l EXCEPT !.unreachableTargets = @ + 1]
         ELSE l

\* Aggregate without the validTargets == 0 case.
AggregateNoFailOpen(l) ==
    [pc |-> "send",
     healthy |-> l.healthy \/ l.unreachableTargets < l.validTargets,
     validTargets |-> l.validTargets,
     unreachableTargets |-> l.unreachableTargets,
     perm |-> <<>>, attempts |-> 0, timeouts |-> 0, errs |-> 0, success |-> FALSE,
     booked |-> l.booked]

\* Aggregate with <= in place of < between the two counters.
AggregateAtMost(l) ==
    [pc |-> "send",
     healthy |-> l.healthy \/ l.validTargets = 0
                    \/ l.unreachableTargets <= l.validTargets,
     validTargets |-> l.validTargets,
     unreachableTargets |-> l.unreachableTargets,
     perm |-> <<>>, attempts |-> 0, timeouts |-> 0, errs |-> 0, success |-> FALSE,
     booked |-> l.booked]

\* The verdict once the target iteration is over; the loop then sends it.
\* The locals of the target iteration are out of scope from here on.
Aggregate(l) ==
    [pc |-> "send",
     healthy |-> l.healthy \/ l.validTargets = 0
                    \/ l.unreachableTargets < l.validTargets,
     validTargets |-> l.validTargets,
     unreachableTargets |-> l.unreachableTargets,
     perm |-> <<>>, attempts |-> 0, timeouts |-> 0, errs |-> 0, success |-> FALSE,
     booked |-> l.booked]

\* The counters as the bookkeeping of a target finds them, kept in l.booked
\* for the latest target that was booked in the cycle.
AtBooking(l) ==
    [l EXCEPT !.booked =
        <<[attempts |-> l.attempts, timeouts |-> l.timeouts, errs |-> l.errs,
           validTargets |-> l.validTargets,
           unreachableTargets |-> l.unreachableTargets]>>]

RECURSIVE TargetLoop(_, _)
RECURSIVE AttemptLoop(_, _)

\* AfterLoop without the `break` after a success: the next target follows.
AfterLoopNoBreak(l, attempts) ==
    IF l.success
    THEN TargetLoop([l EXCEPT !.healthy = TRUE, !.perm = Tail(@)], attempts)
    ELSE TargetLoop([Book(AtBooking(l)) EXCEPT !.perm = Tail(@)], attempts)

\* After the attempt loop of the current target: a success ends the target
\* iteration, anything else is booked and the next target follows.
AfterLoop(l, attempts) ==
    IF l.success
    THEN Aggregate([l EXCEPT !.healthy = TRUE])
    ELSE TargetLoop([Book(AtBooking(l)) EXCEPT !.perm = Tail(@)], attempts)

\* AttemptLoop with <= in place of < in the loop condition.
AttemptLoopOneMore(l, attempts) ==
    IF ~l.success /\ l.attempts <= attempts
    THEN [l EXCEPT !.pc = "attempt"]
    ELSE AfterLoop(l, attempts)

\* AttemptLoop without the !success test of the loop condition.
AttemptLoopIgnoreSuccess(l, attempts) ==
    IF l.attempts < attempts
    THEN [l EXCEPT !.pc = "attempt"]
    ELSE AfterLoop(l, attempts)

\* The head of the attempt loop: another attempt, or the loop is over.
AttemptLoop(l, attempts) ==
    IF ~l.success /\ l.attempts < attempts
    THEN [l EXCEPT !.pc = "attempt"]
    ELSE AfterLoop(l, attempts)

\* The head of the target iteration; l.perm holds the targets still to probe.
TargetLoop(l, attempts) ==
    IF l.perm = <<>>
    THEN Aggregate(l)
    ELSE AttemptLoop(
            [l EXCEPT !.attempts = 0, !.timeouts = 0, !.errs = 0, !.success = FALSE],
            attempts)

\* The loop after a prober call returned err.
Return(l, err, attempts) ==
    IF Class(err) = "error" THEN [Count(l, err) EXCEPT !.pc = "cooldown"]
    ELSE IF Breaks(err) THEN AfterLoop(Count(l, err), attempts)
    ELSE AttemptLoop(Count(l, err), attempts)

\* The target the loop of interface i is at.
Target(i) == config.Targets[Head(loop[i].perm)]

\* The locals of probeInterface before its first cycle.
NoLoop ==
    [pc |-> "start", healthy |-> FALSE, validTargets |-> 0, unreachableTargets |-> 0,
     perm |-> <<>>, attempts |-> 0, timeouts |-> 0, errs |-> 0, success |-> FALSE,
     booked |-> <<>>]

\* No ProbeHTTP call in progress.
NoProbe ==
    [rperm |-> <<>>, servFails |-> 0, addrs |-> {}, err |-> "nil",
     workingHostResolver |-> FALSE, cacheHit |-> FALSE, dial |-> <<>>]

\* Nothing attempted yet in this cycle.
NoneSeen == [t \in TargetIds |-> [tries |-> 0, made |-> 0, classes |-> {}]]

\* The ghost record of this cycle after an attempt on the current target returned.
Saw(s, t, err) == [s EXCEPT ![t].classes = @ \cup {Class(err)}]

\* The prober call of interface i returns err: its locals are gone and the
\* probing loop moves on.
Finish(i, l, s, err) ==
    /\ loop' = [loop EXCEPT ![i] = Return(l, err, config.Attempts)]
    /\ probe' = [probe EXCEPT ![i] = NoProbe]
    /\ seen' = [seen EXCEPT ![i] = Saw(s, Head(l.perm), err)]

\* ProbeHTTP once the lookups are over with the address set p.addrs: an empty
\* set is an error, any other is next stored in the cache.
Resolved(i, l, p, s) ==
    IF p.addrs = {}
    THEN Finish(i, l, s, ErrNoAddresses)
    ELSE /\ loop' = [loop EXCEPT ![i] = [l EXCEPT !.pc = "store"]]
         /\ probe' = [probe EXCEPT ![i] = [p EXCEPT !.err = "nil"]]
         /\ seen' = [seen EXCEPT ![i] = s]

\* Exhausted without the count of SERVFAIL answers.
ExhaustedImpossible(p) == ErrDNSResolutionImpossible

\* The fallback loop is exhausted without an answer.
Exhausted(p) ==
    IF p.servFails >= 1 THEN ErrDNSFallbackServFail ELSE ErrDNSResolutionImpossible

\* The start of a cycle (also the return of the inter-cycle sleep).
StartCycle(i) ==
    /\ ~exited
    /\ i \in config.Interfaces
    /\ loop[i].pc \in {"start", "sleep"}
    /\ \E perm \in Perm(Len(config.Targets)) :
          loop' = [loop EXCEPT ![i] =
                      TargetLoop(
                          [loop[i] EXCEPT
                              !.healthy = FALSE,
                              !.validTargets = Len(config.Targets),
                              !.unreachableTargets = 0,
                              !.perm = perm],
                          config.Attempts)]
    /\ UNCHANGED <<config, zone, horizon, cancelled, exited, probe, dnsCache, interfaceStatusMap, now, seen>>

\* SkipAttempt with the iteration counted as a hard error.
SkipAttemptAsError(i) ==
    /\ ~exited
    /\ i \in config.Interfaces
    /\ loop[i].pc = "attempt"
    /\ Target(i).Probe \notin probers
    /\ loop' = [loop EXCEPT ![i] =
                    AttemptLoop([loop[i] EXCEPT !.attempts = @ + 1, !.errs = @ + 1],
                                config.Attempts)]
    /\ seen' = [seen EXCEPT ![i][Head(loop[i].perm)].tries = @ + 1]
    /\ UNCHANGED <<config, zone, horizon, cancelled, exited, probe, dnsCache, interfaceStatusMap, now>>

\* An iteration of the attempt loop on a target whose probe kind has no prober.
SkipAttempt(i) ==
    /\ ~exited
    /\ i \in config.Interfaces
    /\ loop[i].pc = "attempt"
    /\ Target(i).Probe \notin probers
    /\ loop' = [loop EXCEPT ![i] =
                    AttemptLoop([loop[i] EXCEPT !.attempts = @ + 1], config.Attempts)]
    /\ seen' = [seen EXCEPT ![i][Head(loop[i].perm)].tries = @ + 1]
    /\ UNCHANGED <<config, zone, horizon, cancelled, exited, probe, dnsCache, interfaceStatusMap, now>>

\* An attempt: the prober is called, and the lookup of the host resolver
\* returns addrs and err.
HostLookup(i) ==
    /\ ~exited
    /\ i \in config.Interfaces
    /\ loop[i].pc = "attempt"
    /\ Target(i).Probe \in probers
    /\ \E ans \in HostAnswers :
            probe' = [probe EXCEPT ![i] =
                        [NoProbe EXCEPT !.addrs = ans.addrs, !.err = ans.err]]
    /\ loop' = [loop EXCEPT ![i] = [@ EXCEPT !.attempts = @ + 1, !.pc = "hostanswer"]]
    /\ seen' = [seen EXCEPT ![i][Head(loop[i].perm)] =
                    [@ EXCEPT !.tries = @ + 1, !.made = @ + 1]]
    /\ UNCHANGED <<config, zone, horizon, cancelled, exited, dnsCache, interfaceStatusMap, now>>

\* ProbeHTTP looks at the host resolver's err: NXDOMAIN returns, any other
\* error starts the fallback loop, none makes the host resolver the working one.
HostAnswer(i) ==
    /\ ~exited
    /\ i \in config.Interfaces
    /\ loop[i].pc = "hostanswer"
    /\ LET l == loop[i]
           p == probe[i]
           s == seen[i]
       IN CASE p.err = "NXDOMAIN" ->
                    Finish(i, l, s, ErrDNSNXDomain)
            [] p.err = "nil" ->
                    Resolved(i, l, [p EXCEPT !.workingHostResolver = TRUE], s)
            [] OTHER ->
                    \E rperm \in Perm(Len(config.FallbackResolvers)) :
                        IF rperm = <<>>
                        THEN Finish(i, l, s, Exhausted(p))
                        ELSE /\ probe' = [probe EXCEPT ![i] = [p EXCEPT !.rperm = rperm]]
                             /\ loop' = [loop EXCEPT ![i] = [l EXCEPT !.pc = "fallback"]]
                             /\ seen' = seen
    /\ UNCHANGED <<config, zone, horizon, cancelled, exited, dnsCache, interfaceStatusMap, now>>

\* FallbackIter with the cache looked up in the first iteration only.
FallbackIterCheckOnce(i) ==
    /\ ~exited
    /\ i \in config.Interfaces
    /\ loop[i].pc = "fallback"
    /\ LET l == loop[i]
           p == probe[i]
           s == seen[i]
           cache == IF Len(p.rperm) = Len(config.FallbackResolvers)
                    THEN Load(dnsCache, Target(i).Host)
                    ELSE [exists |-> FALSE, value |-> {}]
       IN IF cache.exists
          THEN Resolved(i, l, [p EXCEPT !.addrs = cache.value, !.cacheHit = TRUE], s)
          ELSE /\ \E ans \in FallbackAnswers :
                    probe' = [probe EXCEPT ![i] =
                                [p EXCEPT !.addrs = ans.addrs, !.err = ans.err]]
               /\ loop' = [loop EXCEPT ![i] = [l EXCEPT !.pc = "fallbackanswer"]]
               /\ seen' = seen
    /\ UNCHANGED <<config, zone, horizon, cancelled, exited, dnsCache, interfaceStatusMap, now>>

\* One iteration of the fallback loop of ProbeHTTP up to the resolver's
\* answer: the cache is looked up, a hit ends the loop, and on a miss the
\* next fallback resolver is queried and its lookup returns addrs and err.
FallbackIter(i) ==
    /\ ~exited
    /\ i \in config.Interfaces
    /\ loop[i].pc = "fallback"
    /\ LET l == loop[i]
           p == probe[i]
           s == seen[i]
           cache == Load(dnsCache, Target(i).Host)
       IN IF cache.exists
          THEN Resolved(i, l, [p EXCEPT !.addrs = cache.value, !.cacheHit = TRUE], s)
          ELSE /\ \E ans \in FallbackAnswers :
                    probe' = [probe EXCEPT ![i] =
                                [p EXCEPT !.addrs = ans.addrs, !.err = ans.err]]
               /\ loop' = [loop EXCEPT ![i] = [l EXCEPT !.pc = "fallbackanswer"]]
               /\ seen' = seen
    /\ UNCHANGED <<config, zone, horizon, cancelled, exited, dnsCache, interfaceStatusMap, now>>

\* FallbackAnswer with NXDOMAIN handled as any other error of the resolver.
FallbackAnswerNoNXDomain(i) ==
    /\ ~exited
    /\ i \in config.Interfaces
    /\ loop[i].pc = "fallbackanswer"
    /\ LET l == loop[i]
           p == probe[i]
           s == seen[i]
       IN CASE p.err = "nil" ->
                    Resolved(i, l, p, s)
            [] OTHER ->
                    LET q == [p EXCEPT
                                !.rperm = Tail(@),
                                !.servFails = IF p.err = "SERVFAIL" THEN @ + 1 ELSE @]
                    IN IF q.rperm = <<>>
                       THEN Finish(i, l, s, Exhausted(q))
                       ELSE /\ probe' = [probe EXCEPT ![i] = q]
                            /\ loop' = [loop EXCEPT ![i] = [l EXCEPT !.pc = "fallback"]]
                            /\ seen' = seen
    /\ UNCHANGED <<config, zone, horizon, cancelled, exited, dnsCache, interfaceStatusMap, now>>

\* The rest of the iteration: ProbeHTTP looks at the fallback resolver's err.
\* NXDOMAIN returns, SERVFAIL is counted, any error goes on to the next
\* iteration or ends the loop without an answer, no error ends the loop.
FallbackAnswer(i) ==
    /\ ~exited
    /\ i \in config.Interfaces
    /\ loop[i].pc = "fallbackanswer"
    /\ LET l == loop[i]
           p == probe[i]
           s == seen[i]
       IN CASE p.err = "NXDOMAIN" ->
                    Finish(i, l, s, ErrDNSNXDomain)
            [] p.err = "nil" ->
                    Resolved(i, l, p, s)
            [] OTHER ->
                    LET q == [p EXCEPT
                                !.rperm = Tail(@),
                                !.servFails = IF p.err = "SERVFAIL" THEN @ + 1 ELSE @]
                    IN IF q.rperm = <<>>
                       THEN Finish(i, l, s, Exhausted(q))
                       ELSE /\ probe' = [probe EXCEPT ![i] = q]
                            /\ loop' = [loop EXCEPT ![i] = [l EXCEPT !.pc = "fallback"]]
                            /\ seen' = seen
    /\ UNCHANGED <<config, zone, horizon, cancelled, exited, dnsCache, interfaceStatusMap, now>>

\* The addresses DialContext may pass to httpDialer.DialContext when the
\* transport hands it addr: with a working host resolver addr itself,
\* without one the first IPv4 address of p.addrs in a random order with the
\* port of addr, and addr itself when p.addrs has no IPv4 address.
DialContext(p, addr) ==
    IF ~p.workingHostResolver /\ \E ip \in p.addrs : To4(ip)
    THEN {<<ip, addr[2]>> : ip \in {a \in p.addrs : To4(a)}}
    ELSE {addr}

\* ProbeHTTP stores the address set in the cache and starts the request,
\* for which the transport dials.
StoreAddrs(i) ==
    /\ ~exited
    /\ i \in config.Interfaces
    /\ loop[i].pc = "store"
    /\ dnsCache' = Store(dnsCache, Target(i).Host, probe[i].addrs)
    /\ loop' = [loop EXCEPT ![i].pc = "request"]
    /\ \E d \in DialContext(probe[i], TargetAddr(Head(loop[i].perm))) :
            probe' = [probe EXCEPT ![i].dial = d]
    /\ UNCHANGED <<config, zone, horizon, cancelled, exited, interfaceStatusMap, now, seen>>

\* The HTTP request of ProbeHTTP ends: the prober returns its result.
Request(i) ==
    /\ ~exited
    /\ i \in config.Interfaces
    /\ loop[i].pc = "request"
    /\ \E r \in HTTPResults : Finish(i, loop[i], seen[i], r)
    /\ UNCHANGED <<config, zone, horizon, cancelled, exited, dnsCache, interfaceStatusMap, now>>

\* The cooldown wait after a generic error ends: the timer fired or ctx is done.
Cooldown(i) ==
    /\ ~exited
    /\ i \in config.Interfaces
    /\ loop[i].pc = "cooldown"
    /\ loop' = [loop EXCEPT ![i] = AttemptLoop(loop[i], config.Attempts)]
    /\ UNCHANGED <<config, zone, horizon, cancelled, exited, probe, dnsCache, interfaceStatusMap, now, seen>>

\* ------------------------------------------------------------------ main
\* UpdateStatus that leaves a record that exists as it is.
UpdateStatusOnce(m, status, t) ==
    IF status.Name \notin DOMAIN m
    THEN Store(m, status.Name,
            [Name |-> status.Name, Healthy |-> status.Healthy,
             LastProbe |-> t, LastChange |-> t])
    ELSE m

\* UpdateStatus with LastChange set on every status.
UpdateStatusAlwaysChange(m, status, t) ==
    Store(m, status.Name,
        [Name |-> status.Name, Healthy |-> status.Healthy,
         LastProbe |-> t, LastChange |-> t])

\* The body of main's `for status := range channel` for one status.
UpdateStatus(m, status, t) ==
    IF status.Name \notin DOMAIN m
    THEN Store(m, status.Name,
            [Name |-> status.Name, Healthy |-> status.Healthy,
             LastProbe |-> t, LastChange |-> t])
    ELSE LET v == m[status.Name]
         IN Store(m, status.Name,
                IF v.Healthy # status.Healthy
                THEN [v EXCEPT !.LastProbe = t, !.Healthy = status.Healthy, !.LastChange = t]
                ELSE [v EXCEPT !.LastProbe = t])

\* The send of interface i meets main's receive; main handles the status.
Consume(i) ==
    /\ ~exited
    /\ i \in config.Interfaces
    /\ loop[i].pc = "send"
    /\ \E t \in {now, now + 1} :
          /\ t <= horizon
          /\ now' = t
          /\ interfaceStatusMap' =
                UpdateStatus(interfaceStatusMap,
                    [Name |-> i, Healthy |-> loop[i].healthy], t)
    /\ loop' = [loop EXCEPT ![i] = [NoLoop EXCEPT !.pc = "sleep"]]
    /\ seen' = [seen EXCEPT ![i] = NoneSeen]
    /\ UNCHANGED <<config, zone, horizon, cancelled, exited, probe, dnsCache>>

\* The signal goroutine: cancel(), and then os.Exit(0).
Cancel ==
    /\ ~cancelled
    /\ cancelled' = TRUE
    /\ UNCHANGED <<config, zone, horizon, exited, loop, probe, dnsCache, interfaceStatusMap, now, seen>>

\* os.Exit(0) ends every goroutine and discards the memory of the process.
Exit ==
    /\ cancelled
    /\ ~exited
    /\ exited' = TRUE
    /\ loop' = [i \in InterfaceNames |-> NoLoop]
    /\ probe' = [i \in InterfaceNames |-> NoProbe]
    /\ seen' = [i \in InterfaceNames |-> NoneSeen]
    /\ dnsCache' = <<>>
    /\ interfaceStatusMap' = <<>>
    /\ UNCHANGED <<config, zone, horizon, cancelled, now>>

\* ------------------------------------------------------- specifications
\* The target lists a configuration of the model may hold: host k at place k.
TargetLists ==
    UNION {[1..n -> ProbeKinds] : n \in 0..Cardinality(TargetIds)}

\* The configurations with the interfaces ifaces, a target list of lists,
\* attempts of tries and n fallback resolvers.
Configs(ifaces, lists, tries, n) ==
    {[Interfaces |-> ifaces,
      Targets |-> [k \in DOMAIN kinds |-> [Host |-> k, Probe |-> kinds[k]]],
      Attempts |-> a,
      FallbackResolvers |-> [r \in 1..n |-> r]] :
        kinds \in lists, a \in tries}

InitWith(configs, zones, horizons) ==
    /\ config \in configs
    /\ zone \in zones
    /\ horizon \in horizons
    /\ cancelled = FALSE
    /\ exited = FALSE
    /\ loop = [i \in InterfaceNames |-> NoLoop]
    /\ probe = [i \in InterfaceNames |-> NoProbe]
    /\ dnsCache = <<>>
    /\ interfaceStatusMap = <<>>
    /\ now = 0
    /\ seen = [i \in InterfaceNames |-> NoneSeen]

\* One interface, every target list and attempts value; the DNS holds one
\* address set and the clock stands still.
Init ==
    InitWith(Configs({"wan0"}, TargetLists, AttemptsValues, MaxResolvers),
             {{{"192.0.2.1"}}}, {0})

Next ==
    \/ \E i \in InterfaceNames : StartCycle(i)
    \/ \E i \in InterfaceNames : SkipAttempt(i)
    \/ \E i \in InterfaceNames : HostLookup(i)
    \/ \E i \in InterfaceNames : HostAnswer(i)
    \/ \E i \in InterfaceNames : FallbackIter(i)
    \/ \E i \in InterfaceNames : FallbackAnswer(i)
    \/ \E i \in InterfaceNames : StoreAddrs(i)
    \/ \E i \in InterfaceNames : Request(i)
    \/ \E i \in InterfaceNames : Cooldown(i)
    \/ \E i \in InterfaceNames : Consume(i)
    \/ Cancel
    \/ Exit

Spec == Init /\ [][Next]_vars

\* Two interfaces probing one target once per cycle; the DNS holds one
\* address set and the clock stands still.
InitNet ==
    InitWith(Configs({"wan0", "wan1"}, {<<"http">>, <<"icmp">>}, {1}, MaxResolvers),
             {{{"192.0.2.1"}}}, {0})

SpecNet == InitNet /\ [][Next]_vars

\* Two interfaces probing one target once per cycle with one fallback
\* resolver, while the clock advances.
InitClock ==
    InitWith(Configs({"wan0", "wan1"}, {<<"http">>, <<"icmp">>}, {1}, 1),
             {{{"192.0.2.1"}}}, {MaxTime})

SpecClock == InitClock /\ [][Next]_vars

\* One interface probing one target once per cycle; the DNS may answer with
\* any set of addresses.
InitDial ==
    InitWith(Configs({"wan0"}, {<<"http">>, <<"icmp">>}, {1}, MaxResolvers),
             {SUBSET AddrPool}, {0})

SpecDial == InitDial /\ [][Next]_vars

\* A step of the probing loop of interface i inside a cycle: an iteration on
\* a target of unknown kind, or a step of a prober call, or the end of a cooldown.
LoopStep(i) ==
    \/ SkipAttempt(i)
    \/ HostLookup(i)
    \/ HostAnswer(i)
    \/ FallbackIter(i)
    \/ FallbackAnswer(i)
    \/ StoreAddrs(i)
    \/ Request(i)
    \/ Cooldown(i)

\* One interface, every target list, a negative attempts or the largest one,
\* and one fallback resolver.
InitLive ==
    InitWith(Configs({"wan0"}, TargetLists, {-1, MaxAttempts}, 1),
             {{{"192.0.2.1"}}}, {0})

\* The scheduling of the goroutines: a probing loop that can take a step
\* inside its cycle takes it (prober calls return, timers fire), and main
\* receives a verdict that a loop is sending.
SpecLive ==
    /\ InitLive
    /\ [][Next]_vars
    /\ \A i \in InterfaceNames : WF_vars(LoopStep(i)) /\ WF_vars(Consume(i))

\* ------------------------------------------------------------------ claims

\* C1: the verdict a cycle sends is healthy exactly when some attempt of the
\* cycle succeeded, or validTargets is 0, or unreachableTargets < validTargets.
C1_Verdict ==
    \A i \in InterfaceNames :
        loop[i].pc = "send" =>
            (loop[i].healthy <=>
                \/ \E t \in TargetIds : "success" \in seen[i][t].classes
                \/ loop[i].validTargets = 0
                \/ loop[i].unreachableTargets < loop[i].validTargets)

\* A verdict healthy without any success, by unreachableTargets < validTargets.
C1_Witness ==
    \E i \in InterfaceNames :
        /\ loop[i].pc = "send"
        /\ \A t \in TargetIds : "success" \notin seen[i][t].classes
        /\ loop[i].validTargets > 0
        /\ loop[i].unreachableTargets < loop[i].validTargets
        /\ loop[i].healthy

\* C2: once an attempt of a cycle has succeeded, the loop is at the send of a
\* healthy verdict: no attempt follows in the cycle, on this or another
\* target, whatever the earlier targets returned.
C2_ShortCircuit ==
    \A i \in InterfaceNames : \A t \in TargetIds :
        "success" \in seen[i][t].classes =>
            /\ loop[i].pc = "send"
            /\ loop[i].healthy
            /\ \A u \in TargetIds \ {t} : "success" \notin seen[i][u].classes

\* A success on one target after another target of the cycle timed out.
C2_Witness ==
    \E i \in InterfaceNames : \E t, u \in TargetIds :
        /\ "success" \in seen[i][t].classes
        /\ seen[i][u].classes = {"timeout"}
        /\ seen[i][u].made = config.Attempts
        /\ loop[i].healthy

\* C3 as claimed: an attempt classified NXDOMAIN is the last on its target in
\* the cycle, and the target decrements validTargets and is not added to
\* unreachableTargets, whatever the earlier attempts on it returned.
C3_Original ==
    [][\A i \in InterfaceNames : \A t \in TargetIds :
        /\ ("nxdomain" \in seen[i][t].classes) =>
                seen'[i][t].made <= seen[i][t].made
        /\ ("nxdomain" \notin seen[i][t].classes /\ "nxdomain" \in seen'[i][t].classes) =>
                /\ loop'[i].validTargets = loop[i].validTargets - 1
                /\ loop'[i].unreachableTargets = loop[i].unreachableTargets]_vars

\* C3 as amended: an attempt classified NXDOMAIN is the last on its target in
\* the cycle; the target decrements validTargets when every earlier attempt on
\* it was a hard error, and is added to unreachableTargets when one timed out.
C3_NXDomain ==
    [][\A i \in InterfaceNames : \A t \in TargetIds :
        /\ ("nxdomain" \in seen[i][t].classes) =>
                seen'[i][t].made <= seen[i][t].made
        /\ ("nxdomain" \notin seen[i][t].classes /\ "nxdomain" \in seen'[i][t].classes) =>
                IF seen[i][t].classes \subseteq {"error"}
                THEN /\ loop'[i].validTargets = loop[i].validTargets - 1
                     /\ loop'[i].unreachableTargets = loop[i].unreachableTargets
                ELSE /\ loop'[i].validTargets = loop[i].validTargets
                     /\ loop'[i].unreachableTargets = loop[i].unreachableTargets + 1]_vars

\* A target that returned NXDOMAIN after a timeout, counted unreachable.
C3_Witness ==
    \E i \in InterfaceNames : \E t \in TargetIds :
        /\ seen[i][t].classes = {"timeout", "nxdomain"}
        /\ loop[i].unreachableTargets >= 1
        /\ loop[i].validTargets = Len(config.Targets)

\* C4: an attempt classified network-down is the last on its target in the
\* cycle, and the target is added to unreachableTargets and leaves
\* validTargets alone, whatever the earlier attempts on it returned.
C4_NetworkDown ==
    [][\A i \in InterfaceNames : \A t \in TargetIds :
        /\ ("netdown" \in seen[i][t].classes) =>
                seen'[i][t].made <= seen[i][t].made
        /\ ("netdown" \notin seen[i][t].classes /\ "netdown" \in seen'[i][t].classes) =>
                /\ loop'[i].validTargets = loop[i].validTargets
                /\ loop'[i].unreachableTargets = loop[i].unreachableTargets + 1]_vars

\* A target that returned network-down after a hard error, counted unreachable.
C4_Witness ==
    \E i \in InterfaceNames : \E t \in TargetIds :
        /\ seen[i][t].classes = {"error", "netdown"}
        /\ loop[i].unreachableTargets >= 1
        /\ loop[i].validTargets = Len(config.Targets)

\* C5 as claimed: once the context is cancelled no probing loop arrives at a
\* send on the channel.
C5_NoSendAfterCancel ==
    [][cancelled =>
        \A i \in InterfaceNames :
            loop'[i].pc = "send" => loop[i].pc = "send"]_vars

\* C6 as claimed: once the context is cancelled no probing loop calls a prober.
C6_NoAttemptAfterCancel ==
    [][cancelled =>
        \A i \in InterfaceNames : \A t \in TargetIds :
            seen'[i][t].made <= seen[i][t].made]_vars

\* C7: a handled status creates the record with LastProbe = LastChange = the
\* handling time, or sets LastProbe to the handling time and changes Healthy
\* and LastChange only when Healthy differs from the stored value; nothing
\* else changes a record.
C7_StatusStore ==
    [][\A n \in InterfaceNames :
        IF loop[n].pc = "send" /\ loop'[n].pc = "sleep"
        THEN /\ n \in DOMAIN interfaceStatusMap'
             /\ interfaceStatusMap'[n].Name = n
             /\ interfaceStatusMap'[n].LastProbe = now'
             /\ interfaceStatusMap'[n].Healthy = loop[n].healthy
             /\ interfaceStatusMap'[n].LastChange =
                    IF n \in DOMAIN interfaceStatusMap
                            /\ interfaceStatusMap[n].Healthy = loop[n].healthy
                    THEN interfaceStatusMap[n].LastChange
                    ELSE now'
        ELSE \/ exited'
             \/ /\ (n \in DOMAIN interfaceStatusMap') = (n \in DOMAIN interfaceStatusMap)
                /\ n \in DOMAIN interfaceStatusMap =>
                        interfaceStatusMap'[n] = interfaceStatusMap[n]]_vars

\* A record whose LastProbe advanced while LastChange stayed.
C7_Witness ==
    \E n \in DOMAIN interfaceStatusMap :
        interfaceStatusMap[n].LastChange < interfaceStatusMap[n].LastProbe

\* C8: a cache entry stays until the process exits, and an attempt in the
\* fallback loop on a target that has one goes on to the request with the
\* entry's address set, through whichever interface, without a fallback answer;
\* a fallback loop has a resolver to start with, so that the cache is looked up.
C8_CacheKept ==
    [][\A i \in InterfaceNames :
        /\ loop'[i].pc = "fallback" => probe'[i].rperm # <<>>
        /\ \A h \in DOMAIN dnsCache :
            \/ exited'
            \/ /\ h \in DOMAIN dnsCache'
               /\ (/\ loop[i].pc = "fallback"
                   /\ Target(i).Host = h
                   /\ <<loop[i], probe[i]>> # <<loop'[i], probe'[i]>>) =>
                        /\ loop'[i].pc = "store"
                        /\ probe'[i].cacheHit
                        /\ ~probe'[i].workingHostResolver
                        /\ probe'[i].addrs = dnsCache[h]]_vars

\* The first attempt ever made through wan1 takes its addresses from the
\* cache: they were stored by an attempt through wan0.
C8_Witness ==
    /\ config.Attempts = 1
    /\ "wan1" \notin DOMAIN interfaceStatusMap
    /\ loop["wan1"].pc = "request"
    /\ probe["wan1"].cacheHit
    /\ probe["wan1"].addrs = dnsCache[1]
    /\ seen["wan0"][1].made >= 1

\* C9 as claimed: with targets A and B and attempts = 3, a cycle in which A
\* succeeds on its first attempt sends healthy, with one attempt on A and
\* none on B.
C9_Original ==
    \A i \in InterfaceNames :
        (/\ loop[i].pc = "send"
         /\ Len(config.Targets) = 2
         /\ config.Attempts = 3
         /\ seen[i][1].classes = {"success"}) =>
            /\ loop[i].healthy
            /\ seen[i][1].made = 1
            /\ seen[i][2].made = 0

\* C9 as amended: with targets A and B and attempts = 3, when A succeeds on
\* its first attempt the cycle goes to the send of a healthy verdict with one
\* attempt on A, and with none on B when A came first in the permutation; no
\* attempt is made while the verdict waits to be sent.
C9_FirstSuccess ==
    [][\A i \in InterfaceNames :
        /\ loop[i].pc = "send" => (seen'[i] = seen[i] \/ seen'[i] = NoneSeen)
        /\ (/\ Len(config.Targets) = 2
            /\ config.Attempts = 3
            /\ seen[i][1].classes = {}
            /\ seen'[i][1].classes = {"success"}) =>
                /\ loop'[i].pc = "send"
                /\ loop'[i].healthy
                /\ seen'[i][1].made = 1
                /\ Len(loop[i].perm) = 2 => seen'[i][2].made = 0]_vars

\* A succeeded on its first attempt and B, an http target, was not attempted.
C9_Witness ==
    \E i \in InterfaceNames :
        /\ loop[i].pc = "send"
        /\ Len(config.Targets) = 2
        /\ config.Attempts = 3
        /\ config.Targets[2].Probe = "http"
        /\ seen[i][1].classes = {"success"}
        /\ seen[i][1].made = 1
        /\ seen[i][2].made = 0
        /\ loop[i].healthy

\* C10: a cycle whose targets each either timed out on all `attempts`
\* attempts or returned NXDOMAIN on the first, one at least timing out, sends
\* unhealthy with validTargets = unreachableTargets = the number that timed out.
C10_AllUnreachable ==
    \A i \in InterfaceNames :
        LET n == Len(config.Targets)
            timedOut == {t \in 1..n : /\ seen[i][t].classes = {"timeout"}
                                       /\ seen[i][t].made = config.Attempts}
            nxFirst == {t \in 1..n : /\ seen[i][t].classes = {"nxdomain"}
                                      /\ seen[i][t].made = 1}
        IN (/\ loop[i].pc = "send"
            /\ timedOut \cup nxFirst = 1..n
            /\ timedOut # {}) =>
                /\ ~loop[i].healthy
                /\ loop[i].validTargets = Cardinality(timedOut)
                /\ loop[i].unreachableTargets = Cardinality(timedOut)

\* One target timed out on every attempt and the other returned NXDOMAIN at once.
C10_Witness ==
    \E i \in InterfaceNames : \E t, u \in TargetIds :
        /\ loop[i].pc = "send"
        /\ Len(config.Targets) = 2
        /\ seen[i][t].classes = {"timeout"}
        /\ seen[i][t].made = config.Attempts
        /\ seen[i][u].classes = {"nxdomain"}
        /\ seen[i][u].made = 1
        /\ ~loop[i].healthy
        /\ loop[i].validTargets = 1
        /\ loop[i].unreachableTargets = 1

\* C11: a cycle in which every target was attempted and every attempt was a
\* hard error (a generic error or NXDOMAIN) sends healthy with validTargets 0.
C11_FailOpen ==
    \A i \in InterfaceNames :
        (/\ loop[i].pc = "send"
         /\ \A t \in 1..Len(config.Targets) :
                /\ seen[i][t].classes # {}
                /\ seen[i][t].classes \subseteq {"error", "nxdomain"}) =>
            /\ loop[i].validTargets = 0
            /\ loop[i].healthy

\* The only target returned NXDOMAIN on the first of three attempts.
C11_Witness ==
    \E i \in InterfaceNames :
        /\ loop[i].pc = "send"
        /\ Len(config.Targets) = 1
        /\ config.Attempts = 3
        /\ seen[i][1].classes = {"nxdomain"}
        /\ seen[i][1].made = 1
        /\ loop[i].validTargets = 0
        /\ loop[i].healthy

\* C12: a loop leaves its send only by main receiving the verdict, which main
\* applies to the record of that interface in the same step; a loop comes to
\* its inter-cycle sleep only from that send and leaves the sleep only into a
\* new cycle, so that each cycle sends one verdict and the verdicts of an
\* interface are applied in the order of its cycles; main receives from one
\* loop at a time, and a record changes only when its interface's send is
\* received.
C12_OneStatusPerCycle ==
    [][\/ exited'
       \/ /\ \A i \in InterfaceNames :
                /\ (loop[i].pc = "send" /\ loop'[i] # loop[i]) =>
                        /\ loop'[i].pc = "sleep"
                        /\ i \in DOMAIN interfaceStatusMap'
                        /\ interfaceStatusMap'[i].Name = i
                        /\ interfaceStatusMap'[i].Healthy = loop[i].healthy
                        /\ interfaceStatusMap'[i].LastProbe = now'
                /\ (loop'[i].pc = "sleep" /\ loop[i].pc # "sleep") =>
                        loop[i].pc = "send"
                /\ (loop[i].pc = "sleep" /\ loop'[i] # loop[i]) =>
                        loop'[i].pc \in {"attempt", "send"}
                /\ (loop'[i].pc = "send" /\ loop[i].pc = "send") =>
                        loop'[i] = loop[i]
                /\ (\/ (i \in DOMAIN interfaceStatusMap') # (i \in DOMAIN interfaceStatusMap)
                    \/ /\ i \in DOMAIN interfaceStatusMap
                       /\ interfaceStatusMap'[i] # interfaceStatusMap[i]) =>
                        loop[i].pc = "send" /\ loop'[i].pc = "sleep"
          /\ Cardinality({i \in InterfaceNames :
                            loop[i].pc = "send" /\ loop'[i].pc = "sleep"}) <= 1]_vars

\* Both interfaces have a record, wan0 waits to send a verdict that differs
\* from its record and wan1 is in the middle of an attempt.
C12_Witness ==
    /\ DOMAIN interfaceStatusMap = {"wan0", "wan1"}
    /\ loop["wan0"].pc = "send"
    /\ loop["wan0"].healthy # interfaceStatusMap["wan0"].Healthy
    /\ loop["wan1"].pc = "request"

\* The targets of the configuration whose probe kind has no prober.
UnknownKind == {t \in 1..Len(config.Targets) : config.Targets[t].Probe \notin probers}

\* C13, one step: no prober is ever called on a target of unknown kind, and
\* none succeeds; an iteration of the attempt loop on such a target leaves
\* validTargets and unreachableTargets as they are; and a cycle that starts
\* has decremented validTargets and incremented unreachableTargets for
\* targets of a known kind at most.
C13_Step ==
    \A i \in InterfaceNames :
        /\ \A t \in UnknownKind : seen'[i][t].made = 0 /\ seen'[i][t].classes = {}
        /\ (/\ loop[i].pc = "attempt"
            /\ Head(loop[i].perm) \in UnknownKind
            /\ loop'[i] # loop[i]
            /\ ~exited') =>
                /\ loop'[i].validTargets = loop[i].validTargets
                /\ loop'[i].unreachableTargets = loop[i].unreachableTargets
        /\ (/\ loop[i].pc \in {"start", "sleep"}
            /\ loop'[i] # loop[i]
            /\ ~exited') =>
                /\ Len(config.Targets) - loop'[i].validTargets
                        <= Len(config.Targets) - Cardinality(UnknownKind)
                /\ loop'[i].unreachableTargets
                        <= Len(config.Targets) - Cardinality(UnknownKind)

\* C13 as claimed: a target whose probe kind has no prober is skipped: no
\* prober is called on it, it is never a success, it does not decrement
\* validTargets and does not increment unreachableTargets.
C13_Skipped == [][C13_Step]_vars

\* C13 as amended: with attempts of 1 or more the steps of the claim hold;
\* with a negative attempts no attempt is made on any target, and a cycle
\* decrements validTargets for every target, of unknown kind or not, and
\* sends healthy.
C13_SkippedWhenPositive ==
    [][IF config.Attempts >= 1
       THEN C13_Step
       ELSE \A i \in InterfaceNames :
                /\ seen'[i] = NoneSeen
                /\ (/\ loop[i].pc \in {"start", "sleep"}
                    /\ loop'[i] # loop[i]
                    /\ ~exited') =>
                        /\ loop'[i].pc = "send"
                        /\ loop'[i].validTargets = 0
                        /\ loop'[i].unreachableTargets = 0
                        /\ loop'[i].healthy]_vars

\* A cycle over one target of unknown kind ended: three iterations, no
\* prober call, both counters as the cycle set them, verdict healthy since
\* unreachableTargets < validTargets.
C13_Witness ==
    \E i \in InterfaceNames :
        /\ loop[i].pc = "send"
        /\ config.Attempts = 3
        /\ UnknownKind = {1}
        /\ seen[i][1].made = 0
        /\ loop[i].validTargets = 1
        /\ loop[i].unreachableTargets = 0

\* C14: after the attempt loop of a target ended without success with the
\* counters attempts, timeouts and errs: when errs = attempts, validTargets
\* is one less and unreachableTargets is unchanged; otherwise, when
\* timeouts = attempts - errs, unreachableTargets is one more and
\* validTargets is unchanged; otherwise both are unchanged. They stay so
\* until the next target is booked.
C14_Bookkeeping ==
    \A i \in InterfaceNames :
        loop[i].booked # <<>> =>
            LET b == loop[i].booked[1]
            IN IF b.errs = b.attempts
               THEN /\ loop[i].validTargets = b.validTargets - 1
                    /\ loop[i].unreachableTargets = b.unreachableTargets
               ELSE IF b.timeouts = b.attempts - b.errs
                    THEN /\ loop[i].validTargets = b.validTargets
                         /\ loop[i].unreachableTargets = b.unreachableTargets + 1
                    ELSE /\ loop[i].validTargets = b.validTargets
                         /\ loop[i].unreachableTargets = b.unreachableTargets

\* A target was booked unreachable after two hard errors and one timeout,
\* and the cycle goes on with the other target.
C14_Witness ==
    \E i \in InterfaceNames :
        /\ loop[i].pc = "attempt"
        /\ loop[i].booked # <<>>
        /\ loop[i].booked[1].attempts = 3
        /\ loop[i].booked[1].errs = 2
        /\ loop[i].booked[1].timeouts = 1
        /\ loop[i].unreachableTargets = 1
        /\ loop[i].validTargets = 2

\* C15: an iteration of the fallback loop that finds the target in the cache
\* takes the address set of the entry and ends the loop without a query;
\* one that does not find it queries a resolver. A resolver is queried from
\* no other place, and the fallback loop, once left, is not entered again in
\* the attempt.
C15_CacheFirst ==
    [][\A i \in InterfaceNames :
        /\ (/\ loop[i].pc = "fallback"
            /\ <<loop[i], probe[i]>> # <<loop'[i], probe'[i]>>
            /\ ~exited') =>
                IF Target(i).Host \in DOMAIN dnsCache
                THEN /\ loop'[i].pc = "store"
                     /\ probe'[i].cacheHit
                     /\ probe'[i].addrs = dnsCache[Target(i).Host]
                     /\ seen'[i] = seen[i]
                ELSE /\ loop'[i].pc = "fallbackanswer"
                     /\ ~probe'[i].cacheHit
                     /\ probe'[i].rperm = probe[i].rperm
        /\ (loop'[i].pc = "fallbackanswer" /\ loop[i].pc # "fallbackanswer") =>
                /\ loop[i].pc = "fallback"
                /\ Target(i).Host \notin DOMAIN dnsCache
        /\ (loop'[i].pc = "fallback" /\ loop[i].pc # "fallback") =>
                loop[i].pc \in {"hostanswer", "fallbackanswer"}
        /\ loop[i].pc \in {"store", "request"} =>
                loop'[i].pc \notin {"fallback", "fallbackanswer"}]_vars

\* The second iteration of a fallback loop found the target in the cache: the
\* first one had queried a resolver, which answered SERVFAIL, and another
\* interface stored the entry since.
C15_Witness ==
    \E i \in InterfaceNames :
        /\ loop[i].pc = "store"
        /\ probe[i].cacheHit
        /\ probe[i].servFails = 1
        /\ Len(probe[i].rperm) = Len(config.FallbackResolvers) - 1
        /\ probe[i].addrs = dnsCache[Target(i).Host]

\* C16: when the host resolver or a fallback resolver answered NXDOMAIN, the
\* next step of the attempt is its return with ErrDNSNXDomain: no cache
\* lookup and no query follows, whatever resolvers remain; and the cache
\* changes only by the store of an attempt that has an address set.
C16_NXDomainReturns ==
    [][/\ \A i \in InterfaceNames :
            (/\ loop[i].pc \in {"hostanswer", "fallbackanswer"}
             /\ probe[i].err = "NXDOMAIN"
             /\ <<loop[i], probe[i]>> # <<loop'[i], probe'[i]>>
             /\ ~exited') =>
                /\ probe'[i] = NoProbe
                /\ loop'[i].pc \in {"attempt", "send"}
                /\ "nxdomain" \in seen'[i][Head(loop[i].perm)].classes
                /\ seen'[i][Head(loop[i].perm)].made = seen[i][Head(loop[i].perm)].made
                /\ dnsCache' = dnsCache
       /\ dnsCache' # dnsCache =>
            \/ exited'
            \/ \E j \in InterfaceNames :
                    /\ loop[j].pc = "store"
                    /\ loop'[j].pc = "request"
                    /\ probe[j].addrs # {}]_vars

\* The first fallback resolver queried answered NXDOMAIN while another
\* resolver remains and the cache holds an entry.
C16_Witness ==
    \E i \in InterfaceNames :
        /\ loop[i].pc = "fallbackanswer"
        /\ probe[i].err = "NXDOMAIN"
        /\ Len(probe[i].rperm) = Len(config.FallbackResolvers)
        /\ Len(probe[i].rperm) >= 2
        /\ dnsCache # <<>>

\* C17: when the last fallback resolver of the loop answered with an error
\* other than NXDOMAIN, the attempt returns; with a SERVFAIL among the answers
\* of the loop the probing loop counts a hard error and waits the cooldown,
\* with none it counts a timeout and goes on without a wait. An error of a
\* resolver that is not the last leads to the next iteration, SERVFAIL counted.
C17_FallbackExhausted ==
    [][\A i \in InterfaceNames :
        (/\ loop[i].pc = "fallbackanswer"
         /\ probe[i].err \notin {"nil", "NXDOMAIN"}
         /\ <<loop[i], probe[i]>> # <<loop'[i], probe'[i]>>
         /\ ~exited') =>
            LET t == Head(loop[i].perm)
                fails == probe[i].servFails + IF probe[i].err = "SERVFAIL" THEN 1 ELSE 0
            IN /\ ~probe[i].workingHostResolver
               /\ ~probe[i].cacheHit
               /\ IF Len(probe[i].rperm) > 1
                  THEN /\ loop'[i] = [loop[i] EXCEPT !.pc = "fallback"]
                       /\ probe'[i].rperm = Tail(probe[i].rperm)
                       /\ probe'[i].servFails = fails
                       /\ seen'[i] = seen[i]
                  ELSE /\ probe'[i] = NoProbe
                       /\ dnsCache' = dnsCache
                       /\ IF fails >= 1
                          THEN /\ "error" \in seen'[i][t].classes
                               /\ loop'[i] = [loop[i] EXCEPT !.pc = "cooldown", !.errs = @ + 1]
                          ELSE /\ "timeout" \in seen'[i][t].classes
                               /\ loop'[i].pc \in {"attempt", "send"}
                               /\ IF loop'[i].perm = loop[i].perm
                                  THEN loop'[i] = [loop[i] EXCEPT !.pc = "attempt",
                                                                  !.timeouts = @ + 1]
                                  ELSE /\ loop'[i].booked[1].attempts = loop[i].attempts
                                       /\ loop'[i].booked[1].timeouts = loop[i].timeouts + 1
                                       /\ loop'[i].booked[1].errs = loop[i].errs]_vars

\* The last resolver of a fallback loop failed without an answer after an
\* earlier one had answered SERVFAIL.
C17_Witness ==
    \E i \in InterfaceNames :
        /\ loop[i].pc = "fallbackanswer"
        /\ probe[i].err = "fail"
        /\ Len(probe[i].rperm) = 1
        /\ probe[i].servFails = 1
        /\ Target(i).Host \notin DOMAIN dnsCache

\* C18 as claimed: an attempt without a working host resolver dials an IPv4
\* address of its resolved address set with the port of the target, never
\* the host name.
C18_DegradedDialsIPv4 ==
    \A i \in InterfaceNames :
        (loop[i].pc = "request" /\ ~probe[i].workingHostResolver) =>
            /\ probe[i].dial[1] \in probe[i].addrs
            /\ To4(probe[i].dial[1])
            /\ probe[i].dial[2] = TargetAddr(Head(loop[i].perm))[2]

\* C18 for the address sets that hold an IPv4 address: an attempt without a
\* working host resolver dials one of them with the port of the target; with
\* a working host resolver the address of the target is dialed as it is.
C18_DialsIPv4IfAny ==
    \A i \in InterfaceNames :
        loop[i].pc = "request" =>
            IF ~probe[i].workingHostResolver /\ \E ip \in probe[i].addrs : To4(ip)
            THEN /\ probe[i].dial[1] \in probe[i].addrs
                 /\ To4(probe[i].dial[1])
                 /\ probe[i].dial[2] = TargetAddr(Head(loop[i].perm))[2]
            ELSE probe[i].dial = TargetAddr(Head(loop[i].perm))

\* Iterations of the attempt loops of the cycle of interface i so far.
RECURSIVE TriesUpTo(_, _)
TriesUpTo(i, n) == IF n = 0 THEN 0 ELSE seen[i][n].tries + TriesUpTo(i, n - 1)

\* C19 as claimed, for a cycle whose verdict is ready and attempts of 1 or
\* more: every target got at least 1 and at most `attempts` attempts, and
\* exactly `attempts` when all its outcomes were timeouts.
C19_Original ==
    \A i \in InterfaceNames :
        (loop[i].pc = "send" /\ config.Attempts >= 1) =>
            \A t \in 1..Len(config.Targets) :
                /\ seen[i][t].tries >= 1
                /\ seen[i][t].tries <= config.Attempts
                /\ seen[i][t].classes = {"timeout"} => seen[i][t].tries = config.Attempts

\* The attempts of a cycle are bounded: a target gets at most `attempts`
\* attempts, none when attempts is negative, and a prober call is made in an
\* attempt only; a cycle makes at most (number of targets x attempts); in a
\* cycle whose verdict is ready each target got at least one attempt unless a
\* target of the cycle succeeded or attempts is negative, and exactly
\* `attempts` when all its outcomes were timeouts.
C19_Bounds ==
    \A i \in InterfaceNames :
        LET n == Len(config.Targets)
            most == IF config.Attempts > 0 THEN config.Attempts ELSE 0
        IN /\ \A t \in TargetIds :
                /\ seen[i][t].tries <= most
                /\ seen[i][t].made <= seen[i][t].tries
                /\ t > n => seen[i][t].tries = 0
           /\ TriesUpTo(i, n) <= n * most
           /\ loop[i].pc = "send" =>
                \A t \in 1..n :
                    /\ seen[i][t].classes = {"timeout"} => seen[i][t].tries = most
                    /\ seen[i][t].tries = 0 =>
                            \/ config.Attempts < 0
                            \/ \E u \in 1..n : "success" \in seen[i][u].classes

\* C19 as amended: the bounds on the attempts of a cycle hold always, and
\* under the scheduling of SpecLive a cycle that has started comes to its
\* verdict being received by main, unless the process exits.
C19_BoundedCycle ==
    /\ []C19_Bounds
    /\ \A i \in InterfaceNames :
            (loop[i].pc \notin {"start", "sleep"}) ~> (loop[i].pc = "sleep" \/ exited)

\* A verdict is ready after a cycle in which one target timed out on each of
\* three attempts before the other succeeded at once.
C19_Witness ==
    \E i \in InterfaceNames : \E t, u \in TargetIds :
        /\ loop[i].pc = "send"
        /\ config.Attempts = 3
        /\ seen[i][t].classes = {"timeout"}
        /\ seen[i][t].tries = 3
        /\ seen[i][u].classes = {"success"}
        /\ seen[i][u].tries = 1

====
